---- MODULE Spec2Model ----
(***************************************************************************)
(* Model of src/opcua_server/server.py: the mirroring of an OPC UA object  *)
(* node into a python object (UaObject / MyObj) and the subscription       *)
(* handler (SubHandler) that forwards data-change notifications to it.     *)
(*                                                                         *)
(* The address space is an input of the program: a node ua_node with a     *)
(* sequence of children, each with a node class, the reference type that   *)
(* links it to ua_node, and a browse name.  The OPC UA library calls the   *)
(* program makes (get_children, get_properties, get_variables,             *)
(* get_node_class, set_value, create_subscription, subscribe_data_change)  *)
(* are modelled by what python-opcua does at the call sites.               *)
(***************************************************************************)
EXTENDS Integers, Sequences, FiniteSets, TLC

\* ---------------------------------------------------------------- bounds
MaxChildren == 2      \* children of the mirrored node
MaxQueue == 2         \* notifications in flight per subscription

\* the values clients and the application write
Values == {0, 1}

\* Browse names (the Name part) a child may carry.  "nodes" is also the name
\* of the attribute UaObject.__init__ stores its index in.
Names == {"Intensity", "Label", "nodes"}

\* The python objects of the program.
Objs == {"O1", "O2"}

\* A child of ua_node: its NodeClass, the reference type from ua_node to it,
\* and the Name of its browse name.  A property is a Variable-class node
\* referenced by HasProperty; a variable is a Variable-class node referenced
\* by HasComponent; objects and folders are Object-class nodes.
Descs ==
  { d \in [cls : {"Object", "Variable"},
           ref : {"HasComponent", "HasProperty", "Organizes"},
           name : Names] :
      \/ d.cls = "Object" /\ d.ref = "Organizes"
      \/ d.cls = "Variable" /\ d.ref \in {"HasComponent", "HasProperty"} }

VARIABLES
  rootCls,    \* NodeClass of ua_node, the node handed to the constructor
  kids,       \* children of ua_node, in get_children() order
  value,      \* value[n]: Value attribute of child n (Absent on an Object)
  objs,       \* the python objects the application constructs
  pc,         \* pc[o]: "unbound", "mirrored" (UaObject.__init__ returned),
              \*        "bound" (MyObj.__init__ returned), "failed" (it raised)
  attrs,      \* attrs[o][a]: the instance attribute a of object o
  subs,       \* the subscriptions on the server, in creation order
  wr,         \* wr[o]: the bulk write() call in progress on o, if any: the
              \*        entries its loop has still to visit, and (seen) the
              \*        attributes of o as they were when the loop last ran
  ret,        \* ret[o]: how the write call on o that is ending ended:
              \*         "ok" or the exception; "none" once the caller has it
  main,       \* where the program (__main__) is: "start" (before
              \*   server.start()), "historize", "run" (the constructor of the
              \*   mirrored object and the loop), "finally", "exited"
  started,    \* server.start() has returned
  stops       \* the number of server.stop() calls executed

vars == <<rootCls, kids, value, objs, pc, attrs, subs, wr, ret, main, started, stops>>

\* ------------------------------------------------------- attribute slots
\* What an attribute or a node's Value holds: nothing, a number, the string
\* 'python only', or a python dict (a sequence of <<key, node>> pairs).
Absent == [t |-> "absent", v |-> 0, d |-> <<>>]
Val(x) == [t |-> "val", v |-> x, d |-> <<>>]
Str == [t |-> "str", v |-> 0, d |-> <<>>]
Dict(d) == [t |-> "dict", v |-> 0, d |-> d]

\* The instance attributes the model tracks: the fields setattr creates (one
\* per browse name), the index self.nodes and MyObj's local-only testval.
AttrNames == Names \cup {"nodes", "testval"}

\* ------------------------------------------------------ library queries
ChildIds == 1 .. Len(kids)

RECURSIVE SeqOf(_, _)
\* the members of S (a set of naturals) in ascending order, from i on
SeqOf(S, i) ==
  IF i > Len(kids) THEN <<>>
  ELSE (IF i \in S THEN <<i>> ELSE <<>>) \o SeqOf(S, i + 1)

get_children == SeqOf(ChildIds, 1)

get_properties ==
  SeqOf({n \in ChildIds : kids[n].ref = "HasProperty" /\ kids[n].cls = "Variable"}, 1)

get_variables ==
  SeqOf({n \in ChildIds : kids[n].ref = "HasComponent" /\ kids[n].cls = "Variable"}, 1)

get_node_class(n) == kids[n].cls

get_browse_name(n) == kids[n].name

\* ------------------------------------------------------------ python dict
DictKeys(d) == {d[i][1] : i \in 1 .. Len(d)}

DictGet(d, k) == d[CHOOSE i \in 1 .. Len(d) : d[i][1] = k][2]

\* d[k] = n: an existing key keeps its position, a new key goes last
DictSet(d, k, n) ==
  IF k \in DictKeys(d)
  THEN [i \in 1 .. Len(d) |-> IF d[i][1] = k THEN <<k, n>> ELSE d[i]]
  ELSE Append(d, <<k, n>>)

\* ------------------------------------------------------------ SubHandler
\* A data-change notification as the library hands it to the handler: the
\* node, the value, and the event data whose monitored_item.Value.Value.Value
\* is that same value.  by records whose write caused it: an object of the
\* program (the echo of its write) or "server" (a client's write, or the
\* first notification of a new monitored item).
Notif(n, x, by) == [node |-> n, val |-> x, data |-> x, by |-> by]

\* mutant: the field is set only when the object has none yet
datachange_notification_keeps_first(obj, node, val, data) ==
  IF obj[get_browse_name(node)].t = "absent"
  THEN [obj EXCEPT ![get_browse_name(node)] = data]
  ELSE obj

\* mutant: the delivered value also lands in the local-only attribute
datachange_notification_sets_testval(obj, node, val, data) ==
  [obj EXCEPT ![get_browse_name(node)] = data, !["testval"] = data]

\* mutant: setattr on the handler itself, not on self.obj
datachange_notification_on_handler(obj, node, val, data) == obj

\* SubHandler.datachange_notification: setattr(self.obj, name, data...Value).
\* obj is the attribute map of the handler's object; the result is the new map.
datachange_notification(obj, node, val, data) ==
  [obj EXCEPT ![get_browse_name(node)] = data]

\* ------------------------------------------------- subscriptions (server)
Range(s) == {s[i] : i \in 1 .. Len(s)}

\* mutant: one handler, that of the first object, serves every subscription
create_subscription_shared_handler(ss, handler) ==
  Append(ss, [handler |-> "O1", items |-> <<>>,
              queue |-> [n \in ChildIds |-> <<>>]])

\* opcua_server.create_subscription(500, handler): a new, empty subscription.
\* queue[n] holds the notifications of node n that are in flight, oldest first.
create_subscription(ss, handler) ==
  Append(ss, [handler |-> handler, items |-> <<>>,
              queue |-> [n \in ChildIds |-> <<>>]])

\* sub.subscribe_data_change(nodes): one monitored item per node; the server
\* queues a first notification with each item's current value
subscribe_data_change(s, nodes) ==
  [s EXCEPT !.items = nodes,
            !.queue = [n \in ChildIds |->
                         IF n \in Range(nodes)
                         THEN <<Notif(n, value[n], "server")>> ELSE <<>>]]

RECURSIVE Total(_, _)
\* the number of notifications in the queues q[1], ..., q[n]
Total(q, n) == IF n = 0 THEN 0 ELSE Len(q[n]) + Total(q, n - 1)

\* the notifications of subscription s that are in flight
InFlight(s) == Total(s.queue, Len(kids))

\* a write of x to node n reaches every subscription that monitors n
Publish(ss, n, x, by) ==
  [i \in 1 .. Len(ss) |->
     IF n \in Range(ss[i].items)
     THEN [ss[i] EXCEPT !.queue[n] = Append(@, Notif(n, x, by))]
     ELSE ss[i]]

\* the model's cap on notifications in flight
Room(n) ==
  \A i \in 1 .. Len(subs) :
     n \in Range(subs[i].items) => InFlight(subs[i]) < MaxQueue

\* -------------------------------------------------------------- UaObject
RECURSIVE index_children(_, _)
\* the loop of UaObject.__init__: self.nodes[_child_name.Name] = _child
index_children(d, ch) ==
  IF ch = <<>> THEN d
  ELSE index_children(DictSet(d, get_browse_name(Head(ch)), Head(ch)), Tail(ch))

\* sub_children = ua_node.get_properties(); sub_children.extend(get_variables())
sub_children == get_properties \o get_variables

\* How a run of UaObject.__init__ can end: it returns, or one of the library
\* calls it makes raises (the address space or the server refuses).
InitOutcomes ==
  {"returns", "get_children raises", "create_subscription raises",
   "subscribe_data_change raises"}

\* the subscriptions on the server after UaObject.__init__ ended with outcome
init_subs(o, outcome) ==
  LET s1 == create_subscription(subs, o)
  IN  CASE outcome = "returns" ->
             [s1 EXCEPT ![Len(s1)] = subscribe_data_change(@, sub_children)]
        [] outcome = "subscribe_data_change raises" -> s1
        [] OTHER -> subs

\* self.nodes after UaObject.__init__ ended with outcome
init_nodes(outcome) ==
  IF outcome = "get_children raises" THEN <<>>
  ELSE index_children(<<>>, get_children)

\* UaObject.__init__(opcua_server, ua_node), called by MyObj.__init__
UaObject_init(o) ==
  /\ o \in objs
  /\ pc[o] = "unbound"
  /\ \E outcome \in InitOutcomes :
       /\ attrs' = [attrs EXCEPT ![o]["nodes"] = Dict(init_nodes(outcome))]
       /\ subs' = init_subs(o, outcome)
       /\ pc' = [pc EXCEPT ![o] = IF outcome = "returns" THEN "mirrored" ELSE "failed"]
  /\ UNCHANGED <<main, started, stops, rootCls, kids, value, objs, wr, ret>>

\* MyObj.__init__ after super().__init__: self.testval = 'python only'
MyObj_init(o) ==
  /\ pc[o] = "mirrored"
  /\ attrs' = [attrs EXCEPT ![o]["testval"] = Str]
  /\ pc' = [pc EXCEPT ![o] = "bound"]
  /\ UNCHANGED <<main, started, stops, rootCls, kids, value, objs, subs, wr, ret>>

\* node.set_value(x) succeeds on a node that has a Value attribute; on an
\* Object-class node the server answers BadAttributeIdInvalid and it raises
has_value(n) == get_node_class(n) = "Variable"

\* the test of the bulk loop: node_class == ua.NodeClass.Variable
is_written(n) == get_node_class(n) = "Variable"

\* The application calls into the object from one thread: it is in no write
\* call, and has taken the result of the last one.
AppReady(o) == ~wr[o].busy /\ ret[o] = "none"

\* mutant: getattr(self, attr) is evaluated before the subscript self.nodes[attr]
write_outcome_getattr_first(o, attr) ==
  LET idx == attrs[o]["nodes"]
  IN  IF attr \notin AttrNames \/ attrs[o][attr].t = "absent" THEN "AttributeError"
      ELSE IF idx.t # "dict" THEN "TypeError"
      ELSE IF attr \notin DictKeys(idx.d) THEN "KeyError"
      ELSE IF ~has_value(DictGet(idx.d, attr)) THEN "UaStatusCodeError"
      ELSE "ok"

\* How self.nodes[attr].set_value(getattr(self, attr)) ends, in python's
\* evaluation order: the subscript, the attribute lookup, then the call.
write_outcome(o, attr) ==
  LET idx == attrs[o]["nodes"]
  IN  IF idx.t # "dict" THEN "TypeError"
      ELSE IF attr \notin DictKeys(idx.d) THEN "KeyError"
      ELSE IF attr \notin AttrNames \/ attrs[o][attr].t = "absent" THEN "AttributeError"
      ELSE IF ~has_value(DictGet(idx.d, attr)) THEN "UaStatusCodeError"
      ELSE "ok"

\* mutant: set_value is never reached, the node keeps its value
write_value_not_pushed(o, attr) == value

\* the node values after write(attr)
write_value(o, attr) ==
  IF write_outcome(o, attr) = "ok"
  THEN [value EXCEPT ![DictGet(attrs[o]["nodes"].d, attr)] = attrs[o][attr]]
  ELSE value

\* the names write(attr) is called with: every attribute, and one that is
\* neither an attribute nor a browse name
WriteArgs == AttrNames \cup {"bogus"}

\* UaObject.write(attr), attr given
write_attr(o, attr) ==
  /\ pc[o] = "bound"
  /\ AppReady(o)
  /\ LET out == write_outcome(o, attr)
         n == DictGet(attrs[o]["nodes"].d, attr)
     IN  /\ out = "ok" => Room(n)
         /\ value' = write_value(o, attr)
         /\ subs' = IF out = "ok" THEN Publish(subs, n, attrs[o][attr], o) ELSE subs
         /\ ret' = [ret EXCEPT ![o] = out]
  /\ UNCHANGED <<main, started, stops, rootCls, kids, objs, pc, attrs, wr>>

Idle == [busy |-> FALSE, todo |-> <<>>, seen |-> [a \in AttrNames |-> Absent]]

\* UaObject.write(): the call evaluates self.nodes.items() and enters the loop
write_all_begin(o) ==
  /\ pc[o] = "bound"
  /\ AppReady(o)
  /\ LET idx == attrs[o]["nodes"]
     IN  IF idx.t # "dict"
         THEN /\ ret' = [ret EXCEPT ![o] = "AttributeError"]
              /\ wr' = wr
         ELSE IF idx.d = <<>>
         THEN /\ ret' = [ret EXCEPT ![o] = "ok"]
              /\ wr' = wr
         ELSE /\ ret' = ret
              /\ wr' = [wr EXCEPT ![o] = [busy |-> TRUE, todo |-> idx.d, seen |-> attrs[o]]]
  /\ UNCHANGED <<main, started, stops, rootCls, kids, value, objs, pc, attrs, subs>>

\* mutant: an entry whose field is missing is passed over and the loop goes on
step_outcome_skips_missing(o, k, node) ==
  IF ~is_written(node) \/ attrs[o][k].t = "absent" THEN "skip"
  ELSE IF ~has_value(node) THEN "UaStatusCodeError"
  ELSE "ok"

\* how one pass of the loop body ends for the entry <<k, node>>
step_outcome(o, k, node) ==
  IF ~is_written(node) THEN "skip"
  ELSE IF attrs[o][k].t = "absent" THEN "AttributeError"
  ELSE IF ~has_value(node) THEN "UaStatusCodeError"
  ELSE "ok"

\* mutant: the loop pushes the fields as they were when the loop last ran
getattr_as_seen(o, k) == wr[o].seen[k]

\* getattr(self, k) in the loop: the field as it is when the pass reads it
getattr(o, k) == attrs[o][k]

\* UaObject.write(): one pass of the loop over self.nodes.items()
write_all_step(o) ==
  /\ wr[o].busy
  /\ LET k == Head(wr[o].todo)[1]
         node == Head(wr[o].todo)[2]
         rest == Tail(wr[o].todo)
         out == step_outcome(o, k, node)
     IN  /\ out = "ok" => Room(node)
         /\ value' = IF out = "ok" THEN [value EXCEPT ![node] = getattr(o, k)] ELSE value
         /\ subs' = IF out = "ok" THEN Publish(subs, node, getattr(o, k), o) ELSE subs
         /\ IF out \in {"ok", "skip"}
            THEN IF rest = <<>>
                 THEN /\ wr' = [wr EXCEPT ![o] = Idle]
                      /\ ret' = [ret EXCEPT ![o] = "ok"]
                 ELSE /\ wr' = [wr EXCEPT ![o].todo = rest, ![o].seen = attrs[o]]
                      /\ ret' = ret
            ELSE /\ wr' = [wr EXCEPT ![o] = Idle]
                 /\ ret' = [ret EXCEPT ![o] = out]
  /\ UNCHANGED <<main, started, stops, rootCls, kids, objs, pc, attrs>>

\* a write call hands its result (a return or an exception) to its caller
write_return(o) ==
  /\ ret[o] # "none"
  /\ ret' = [ret EXCEPT ![o] = "none"]
  /\ UNCHANGED <<main, started, stops, rootCls, kids, value, objs, pc, attrs, subs, wr>>

\* ----------------------------------------------------------- environment
\* the browse names of the children, "nodes" apart: the fields application
\* code assigns (O.Intensity = 3.14)
FieldNames == {kids[n].name : n \in ChildIds} \ {"nodes"}

\* application code assigns a field of the object
Assign(o, name, x) ==
  /\ pc[o] = "bound"
  /\ AppReady(o)
  /\ name \in FieldNames
  /\ attrs' = [attrs EXCEPT ![o][name] = Val(x)]
  /\ UNCHANGED <<main, started, stops, rootCls, kids, value, objs, pc, subs, wr, ret>>

\* a client (or code holding the node, as the main loop does) writes x to n
ClientWrite(n, x) ==
  /\ n \in ChildIds
  /\ has_value(n)
  /\ Room(n)
  /\ value' = [value EXCEPT ![n] = Val(x)]
  /\ subs' = Publish(subs, n, Val(x), "server")
  /\ UNCHANGED <<main, started, stops, rootCls, kids, objs, pc, attrs, wr, ret>>

\* The subscription's thread hands a notification to the handler.  The
\* notifications of one monitored item are delivered in the order they were
\* queued; the order between items is the publish cycle's to choose.
Deliver(i, n) ==
  /\ i \in 1 .. Len(subs)
  /\ n \in ChildIds
  /\ subs[i].queue[n] # <<>>
  /\ LET m == Head(subs[i].queue[n])
         o == subs[i].handler
     IN  attrs' = [attrs EXCEPT ![o] = datachange_notification(@, m.node, m.val, m.data)]
  /\ subs' = [subs EXCEPT ![i].queue[n] = Tail(@)]
  /\ UNCHANGED <<main, started, stops, rootCls, kids, value, objs, pc, wr, ret>>

\* ---------------------------------------------------------- specification
\* The address spaces the program is run on.  Browse names other than "nodes"
\* are interchangeable, so "Label" is used only after "Intensity"; the
\* children of a Variable-class node are Variable-class nodes.
Trees ==
  { t \in UNION {[1 .. k -> Descs] : k \in 0 .. MaxChildren} :
      \A n \in 1 .. Len(t) :
         t[n].name = "Label" => \E m \in 1 .. n - 1 : t[m].name = "Intensity" }

\* the address space is populated and no object is constructed yet
Populated ==
  /\ rootCls \in {"Object", "Variable"}
  /\ kids \in Trees
  /\ rootCls = "Variable" => \A n \in 1 .. Len(kids) : kids[n].cls = "Variable"
  /\ value = [n \in 1 .. Len(kids) |-> IF kids[n].cls = "Variable" THEN Val(0) ELSE Absent]
  /\ pc = [o \in Objs |-> "unbound"]
  /\ attrs = [o \in Objs |-> [a \in AttrNames |-> Absent]]
  /\ subs = <<>>
  /\ wr = [o \in Objs |-> Idle]
  /\ ret = [o \in Objs |-> "none"]

\* The state the classes are exercised from: the server is started and the
\* program is about to construct the mirrored object.
Init ==
  /\ Populated
  /\ objs = {"O1"}
  /\ main = "run"
  /\ started = TRUE
  /\ stops = 0

Next ==
  \/ \E o \in Objs : UaObject_init(o)
  \/ \E o \in Objs : MyObj_init(o)
  \/ \E o \in Objs, attr \in WriteArgs : write_attr(o, attr)
  \/ \E o \in Objs : write_all_begin(o)
  \/ \E o \in Objs : write_all_step(o)
  \/ \E o \in Objs : write_return(o)
  \/ \E o \in Objs, name \in Names, x \in Values : Assign(o, name, x)
  \/ \E n \in 1 .. MaxChildren, x \in Values : ClientWrite(n, x)
  \/ \E i \in 1 .. Cardinality(Objs), n \in 1 .. MaxChildren : Deliver(i, n)

Spec == Init /\ [][Next]_vars

\* ------------------------------------------------------------- __main__
\* How a library call of the program's start-up can end.
CallOutcomes == {"returns", "raises"}

\* server.start()
server_start ==
  /\ main = "start"
  /\ \E outcome \in CallOutcomes :
       IF outcome = "returns"
       THEN started' = TRUE /\ main' = "historize"
       ELSE started' = started /\ main' = "exited"
  /\ UNCHANGED <<stops, rootCls, kids, value, objs, pc, attrs, subs, wr, ret>>

\* server.historize_node_data_change(random_value, period=None, count=100):
\* the statement is outside the try, an error it raises ends the program
historize_node_data_change ==
  /\ main = "historize"
  /\ \E outcome \in CallOutcomes :
       main' = IF outcome = "returns" THEN "run" ELSE "exited"
  /\ UNCHANGED <<started, stops, rootCls, kids, value, objs, pc, attrs, subs, wr, ret>>

\* my_python_obj = MyObj(server, device) raised: the statement is outside the
\* try, the error ends the program
MyObj_raises ==
  /\ main = "run"
  /\ pc["O1"] = "failed"
  /\ main' = "exited"
  /\ UNCHANGED <<started, stops, rootCls, kids, value, objs, pc, attrs, subs, wr, ret>>

\* an exception (KeyboardInterrupt, or an error of a statement of the loop)
\* leaves the while loop of the try block
loop_raises ==
  /\ main = "run"
  /\ pc["O1"] = "bound"
  /\ main' = "finally"
  /\ UNCHANGED <<started, stops, rootCls, kids, value, objs, pc, attrs, subs, wr, ret>>

\* finally: server.stop()
server_stop ==
  /\ main = "finally"
  /\ stops' = stops + 1
  /\ main' = "exited"
  /\ UNCHANGED <<started, rootCls, kids, value, objs, pc, attrs, subs, wr, ret>>

\* the program before server.start()
MainInit ==
  /\ Populated
  /\ objs = {"O1"}
  /\ main = "start"
  /\ started = FALSE
  /\ stops = 0

\* The program: start-up, the constructor of the mirrored object, the loop
\* that writes to the nodes while the subscription's thread delivers, and
\* the exits.
MainNext ==
  \/ server_start
  \/ historize_node_data_change
  \/ main = "run" /\ UaObject_init("O1")
  \/ main = "run" /\ MyObj_init("O1")
  \/ MyObj_raises
  \/ main = "run" /\ pc["O1"] = "bound" /\ \E n \in 1 .. MaxChildren, x \in Values : ClientWrite(n, x)
  \/ main = "run" /\ \E n \in 1 .. MaxChildren : Deliver(1, n)
  \/ loop_raises
  \/ server_stop

MainSpec == MainInit /\ [][MainNext]_vars

\* ----------------------------------------------------- two mirrored objects
\* The application constructs two objects on ua_node, an Object-class node:
\* both index the same children and each subscribes to them.
PairInit ==
  /\ Populated
  /\ rootCls = "Object"
  /\ objs = Objs
  /\ main = "run"
  /\ started = TRUE
  /\ stops = 0

\* What the objects then go through: the constructors, the clients' writes
\* and the deliveries of both subscriptions.
PairNext ==
  \/ \E o \in Objs : UaObject_init(o)
  \/ \E o \in Objs : MyObj_init(o)
  \/ \E n \in 1 .. MaxChildren, x \in Values : ClientWrite(n, x)
  \/ \E i \in 1 .. Cardinality(Objs), n \in 1 .. MaxChildren : Deliver(i, n)

PairSpec == PairInit /\ [][PairNext]_vars

\* The notifications of a node are delivered by the publish cycle that
\* follows their queuing: the delivery of a node's oldest notification is
\* weakly fair.
\* the subscriptions of Spec, whose one object creates at most one
FairSubs == {1}

FairSpec ==
  /\ Spec
  /\ \A i \in FairSubs, n \in 1 .. MaxChildren : WF_vars(Deliver(i, n))

\* ================================================================ claims
\* the subscriptions whose handler forwards to o
SubsOf(o) == {i \in 1 .. Len(subs) : subs[i].handler = o}

\* o's constructor has returned
Constructed(o) == pc[o] \in {"mirrored", "bound"}

\* self.nodes of o, while it still is the index __init__ built
Index(o) == attrs[o]["nodes"].d

Subscribable == {n \in ChildIds : kids[n].cls = "Variable"}

\* what C1 says of o once UaObject.__init__ has returned
C1_Post(o) ==
  /\ Cardinality(SubsOf(o)) = 1
  /\ \A c \in Subscribable :
       /\ attrs[o]["nodes"].t = "dict"
       /\ kids[c].name \in DictKeys(Index(o))
       /\ DictGet(Index(o), kids[c].name) = c
       /\ \A i \in SubsOf(o) : c \in Range(subs[i].items)

\* C1: when UaObject.__init__ returns, every child that is a property or a
\* variable has an entry in o.nodes under its browse name that refers to that
\* child, and is a monitored item of the one subscription o created.
C1_IndexRefersToEachChild ==
  [][\A o \in Objs : (UaObject_init(o) /\ pc'[o] = "mirrored") => C1_Post(o)']_vars

\* C2: the delivery of a notification for a child stores the delivered value,
\* untransformed, in the field named after the child, whatever the field held
\* (so after v1..vN it holds vN), and touches no other field: notifications
\* for other children do not disturb it.
C2_LastDeliveryWins ==
  [][\A i \in 1 .. Len(subs), n \in ChildIds :
       Deliver(i, n) =>
         LET m == Head(subs[i].queue[n])
             o == subs[i].handler
         IN  /\ attrs'[o][kids[m.node].name] = m.data
             /\ \A a \in AttrNames \ {kids[m.node].name} : attrs'[o][a] = attrs[o][a]]_vars

\* C2 witness: a sequence of notifications for one child is under way: the
\* field holds the 1 a delivery stored (the application does not hold the
\* object yet), and a later notification for the same child, carrying 0, is
\* still to be delivered.
C2_Witness ==
  \E o \in Objs, c \in Subscribable :
     /\ pc[o] = "mirrored"
     /\ attrs[o][kids[c].name] = Val(1)
     /\ \E i \in SubsOf(o) : \E j \in 1 .. Len(subs[i].queue[c]) :
          subs[i].queue[c][j].data = Val(0)

\* C3: write(name) with a name that is no key of self.nodes raises (KeyError
\* from the subscript; TypeError when self.nodes is no dict any more) and
\* changes no node's value and queues no notification.
C3_UnknownNameRaises ==
  [][\A o \in Objs, attr \in WriteArgs :
       (/\ write_attr(o, attr)
        /\ attrs[o]["nodes"].t = "dict" => attr \notin DictKeys(Index(o)))
       => /\ ret'[o] = (IF attrs[o]["nodes"].t = "dict" THEN "KeyError" ELSE "TypeError")
          /\ value' = value
          /\ subs' = subs]_vars

\* C3 witness: a write(name) has just raised KeyError on an object whose
\* index holds other names
C3_Witness ==
  \E o \in Objs :
     /\ ret[o] = "KeyError"
     /\ attrs[o]["nodes"].t = "dict"
     /\ Index(o) # <<>>

\* a child the address space presents as a variable, not as a property
IsVariableChild(n) == kids[n].cls = "Variable" /\ kids[n].ref = "HasComponent"

\* C4: each pass of the loop of a bulk write() sets the entry's node to the
\* value of the same-named field when the node is a variable, and leaves the
\* node untouched when it is a property or an object.  (Stated of the entries
\* whose same-named attribute is a mirrored field holding a value.)
C4_BulkWritePushesVariablesOnly ==
  [][\A o \in Objs :
       (write_all_step(o) /\ attrs[o][Head(wr[o].todo)[1]].t = "val") =>
         LET k == Head(wr[o].todo)[1]
             node == Head(wr[o].todo)[2]
         IN  IF IsVariableChild(node)
             THEN value'[node] = attrs[o][k]
             ELSE value'[node] = value[node]]_vars

\* C5: once the constructor has returned, every subscribed child has a field
\* of its name on the object, and with no notification in flight the field
\* equals the node's value.
C5_FieldsMirrorNodes ==
  \A o \in Objs :
     Constructed(o) =>
       \A c \in Subscribable :
          /\ attrs[o][kids[c].name].t # "absent"
          /\ (\A i \in SubsOf(o) : InFlight(subs[i]) = 0)
               => attrs[o][kids[c].name] = value[c]

\* C6: write(name) on an entry whose node is a property or another
\* non-variable node raises and leaves that node's value as it was.  (Stated
\* of the names of mirrored fields, not of "nodes", the index itself.)
C6_NamedWriteRejectsNonVariables ==
  [][\A o \in Objs, attr \in WriteArgs \ {"nodes"} :
       (/\ write_attr(o, attr)
        /\ attrs[o]["nodes"].t = "dict"
        /\ attr \in DictKeys(Index(o))
        /\ ~IsVariableChild(DictGet(Index(o), attr)))
       => /\ ret'[o] \notin {"none", "ok"}
          /\ value'[DictGet(Index(o), attr)] = value[DictGet(Index(o), attr)]]_vars

\* C7: on a node that is not of class Object the constructor does not
\* return an object, and no subscription of it exists on the server.
C7_NonObjectNodeRefused ==
  rootCls # "Object" => \A o \in Objs : ~Constructed(o) /\ SubsOf(o) = {}

\* C8: when the constructor has raised, no subscription it created is left
\* on the server.
C8_FailedInitLeavesNoSubscription ==
  \A o \in Objs : pc[o] = "failed" => SubsOf(o) = {}

\* C9: a value a client wrote to a subscribed child, once queued for the
\* object's handler, is eventually the value of the field named after the
\* child; no fairness is assumed of write, so no call to it is needed.
C9_ClientWriteReachesField ==
  \A i \in FairSubs, n \in 1 .. MaxChildren, x \in Values :
     (/\ i <= Len(subs)
      /\ n <= Len(kids)
      /\ \E j \in 1 .. Len(subs[i].queue[n]) :
            subs[i].queue[n][j] = Notif(n, Val(x), "server"))
     ~> (/\ i <= Len(subs)
         /\ n <= Len(kids)
         /\ attrs[subs[i].handler][kids[n].name] = Val(x))

\* C9 witness: a client's 1 for a variable reached the field while the
\* application had not yet been handed the object, so no write was called
C9_Witness ==
  \E o \in Objs, c \in Subscribable :
     /\ pc[o] = "mirrored"
     /\ IsVariableChild(c)
     /\ value[c] = Val(1)
     /\ attrs[o][kids[c].name] = Val(1)

\* C10: the delivery of the echo of the object's own write leaves the field
\* as it was and writes nothing to the server.  (Stated of the echoes that
\* carry a value, the echoes of a mirrored field.)
C10_EchoIsNoOp ==
  [][\A i \in 1 .. Len(subs), n \in ChildIds :
       (/\ Deliver(i, n)
        /\ Head(subs[i].queue[n]).by = subs[i].handler
        /\ Head(subs[i].queue[n]).data.t = "val")
       => /\ attrs'[subs[i].handler][kids[n].name] = attrs[subs[i].handler][kids[n].name]
          /\ value' = value]_vars

\* C11: when write(name) has pushed the field name to its node, the node's
\* value (what a read of the node returns) is the field's value and the field
\* is as it was; and when the node already held the field's value, as it does
\* after a first such write, the write leaves every node's value the same.
C11_WriteRoundTrip ==
  [][\A o \in Objs, attr \in WriteArgs :
       (write_attr(o, attr) /\ ret'[o] = "ok") =>
         LET n == DictGet(Index(o), attr)
         IN  /\ value'[n] = attrs[o][attr]
             /\ attrs' = attrs
             /\ value[n] = attrs[o][attr] => value' = value]_vars

\* C11 witness: the field of a variable holds 1 and write(name) has returned
\* twice with it: both echoes are in flight and the node holds 1
C11_Witness ==
  \E o \in Objs, c \in Subscribable :
     /\ IsVariableChild(c)
     /\ ret[o] = "ok"
     /\ attrs[o][kids[c].name] = Val(1)
     /\ value[c] = Val(1)
     /\ \E i \in SubsOf(o) :
          subs[i].queue[c] = <<Notif(c, Val(1), o), Notif(c, Val(1), o)>>

C13_StopOnEveryExit ==
  (main = "exited" /\ started) => stops = 1

\* C14: once the constructor of o has returned, no step (a notification, a
\* write call, an assignment of a field) changes o.nodes: neither its keys
\* nor the node a key refers to.
C14_IndexIsStatic ==
  [][\A o \in Objs :
       Constructed(o) => attrs'[o]["nodes"] = attrs[o]["nodes"]]_vars

\* C15: every constructed object has one subscription of its own, whose
\* handler forwards to it alone; and the delivery of a notification on the
\* subscription of one object changes, of that object, only the attribute
\* named after the child, and changes no attribute (field or index) of
\* another object and nothing of another subscription, although both objects
\* have children of the same browse names.
C15_ObjectsAreIsolated ==
  [][/\ \A o \in Objs : Constructed(o)' => Cardinality(SubsOf(o)') = 1
     /\ \A i \in 1 .. Len(subs), n \in ChildIds :
          Deliver(i, n) =>
            /\ \A a \in AttrNames \ {kids[n].name} :
                 attrs'[subs[i].handler][a] = attrs[subs[i].handler][a]
            /\ \A o \in Objs \ {subs[i].handler} : attrs'[o] = attrs[o]
            /\ \A h \in 1 .. Len(subs) : h # i => subs'[h] = subs[h]]_vars

\* C15 witness: both objects are constructed on the same children; a client
\* wrote 1 to a child, and the notification has been delivered to O1, whose
\* field holds 1, while O2's field of the same name still holds 0 and O2's
\* subscription still has its notification in flight
C15_Witness ==
  \E c \in Subscribable :
     /\ Constructed("O1") /\ Constructed("O2")
     /\ attrs["O1"][kids[c].name] = Val(1)
     /\ attrs["O2"][kids[c].name] = Val(0)
     /\ \E i \in SubsOf("O2") : subs[i].queue[c] = <<Notif(c, Val(1), "server")>>

\* C16: a bulk write() and the deliveries for its object are not serialised.
\* A delivery that arrives while the loop is under way is not held back: it
\* sets the field and leaves the loop where it is.  Each pass that pushes
\* sets the node to the field's value as it is when the pass reads it, even
\* when the field has changed since the loop last ran; so the node holds the
\* value of the last push and the field the value of the last delivery.
C16_WriteIsNotSerialised ==
  [][/\ \A i \in 1 .. Len(subs), n \in ChildIds :
          (Deliver(i, n) /\ wr[subs[i].handler].busy)
          => /\ attrs'[subs[i].handler][kids[n].name] = Head(subs[i].queue[n]).data
             /\ wr' = wr
     /\ \A o \in Objs :
          (/\ write_all_step(o)
           /\ get_node_class(Head(wr[o].todo)[2]) = "Variable"
           /\ attrs[o][Head(wr[o].todo)[1]].t # "absent")
          => /\ value'[Head(wr[o].todo)[2]] = attrs[o][Head(wr[o].todo)[1]]
             /\ attrs' = attrs]_vars

\* C16 witness: a bulk write() has pushed its first entry (the echo is in
\* flight) and has its second entry, a variable, still to push; since the
\* first pass the field of the second entry went from 0 to 1 (a notification
\* was delivered: the application's thread is inside the call)
C16_Witness ==
  \E o \in Objs :
     /\ wr[o].busy
     /\ attrs[o]["nodes"].t = "dict"
     /\ Len(Index(o)) = 2
     /\ wr[o].todo = <<Index(o)[2]>>
     /\ \E i \in SubsOf(o) :
          \E j \in 1 .. Len(subs[i].queue[Index(o)[1][2]]) :
             subs[i].queue[Index(o)[1][2]][j].by = o
     /\ get_node_class(Index(o)[2][2]) = "Variable"
     /\ wr[o].seen[Index(o)[2][1]] = Val(0)
     /\ attrs[o][Index(o)[2][1]] = Val(1)

\* C17: testval, which no child is named after, is declared by MyObj.__init__
\* only after UaObject.__init__ has returned (the bind step comes first);
\* from then on no step changes it (no notification does); write('testval')
\* raises (the name is no key of the index) and writes no node; and no node
\* ever holds its value, so no bulk write() pushes it.
C17_LocalFieldStaysLocal ==
  [][\A o \in Objs :
       /\ attrs'[o]["testval"] # attrs[o]["testval"]
            => /\ pc[o] = "mirrored" /\ pc'[o] = "bound"
               /\ attrs[o]["testval"] = Absent /\ attrs'[o]["testval"] = Str
       /\ write_attr(o, "testval")
            => /\ ret'[o] \in {"KeyError", "TypeError"}
               /\ value' = value
               /\ subs' = subs
       /\ \A n \in ChildIds : value'[n] # Str]_vars

\* C17 witness: the object is bound and holds testval, and a bulk write() is
\* under way on a two-entry index: its first pass has pushed the 1 of the
\* first entry's field to the node, a variable (the echo is in flight), and
\* the second entry is still to come; testval is as declared
C17_Witness ==
  \E o \in Objs :
     /\ pc[o] = "bound"
     /\ attrs[o]["testval"] = Str
     /\ wr[o].busy
     /\ attrs[o]["nodes"].t = "dict"
     /\ Len(Index(o)) = 2
     /\ wr[o].todo = <<Index(o)[2]>>
     /\ get_node_class(Index(o)[1][2]) = "Variable"
     /\ value[Index(o)[1][2]] = Val(1)
     /\ \E i \in SubsOf(o) :
          subs[i].queue[Index(o)[1][2]] = <<Notif(Index(o)[1][2], Val(1), o)>>

====
